---- MODULE Spec2Model ----
(***************************************************************************)
(* Model of the CricPulse dashboard front end (frontend/src/App.jsx):      *)
(*   - the search helpers normalizeText / buildSearchKey,                  *)
(*   - the SearchSelect combobox (option filtering, open/close, query),    *)
(*   - the App component: players fetch, controls, matchup request effect. *)
(* Strings are sequences of one-character strings.                         *)
(***************************************************************************)
EXTENDS Integers, Sequences, FiniteSets, TLC

(***************************************************************************)
(* Bounds of the model                                                     *)
(***************************************************************************)
MaxNameLen == 5      \* longest raw name fed to the pure search helpers
MaxShortList == 2    \* longest exhaustively enumerated option list
MaxOverCap == 2      \* long option lists have 150-2 .. 150+MaxOverCap entries
MaxRequests == 2     \* matchup requests issued in one run of the App
MaxShortRows == 2    \* longest exhaustively enumerated list of table rows
MaxOverTop == 2      \* long row lists have 10-1 .. 10+MaxOverTop rows

(***************************************************************************)
(* Program constants                                                       *)
(***************************************************************************)
MaxOptions == 150
MaxOver == 19
MaxBall == 6
MinBalls == 6

(***************************************************************************)
(* Characters and strings                                                  *)
(***************************************************************************)
Empty == << >>

SP == " "

Min(a, b) == IF a < b THEN a ELSE b

Max(a, b) == IF a > b THEN a ELSE b

\* String.prototype.toLowerCase on one character of the modelled alphabet
LowerChar(c) ==
  CASE c = "A" -> "a"
    [] c = "B" -> "b"
    [] c = "C" -> "c"
    [] c = "E" -> "e"
    [] c = "N" -> "n"
    [] c = "O" -> "o"
    [] c = "R" -> "r"
    [] c = "S" -> "s"
    [] OTHER -> c

\* the characters matched by the regular expression class \s (and by trim)
IsSpace(c) == c \in {" ", "\t", "\n"}

ToLowerCase(s) == [i \in 1..Len(s) |-> LowerChar(s[i])]

\* s.replace(/\s+/g, " "): every maximal run of whitespace becomes one space
RECURSIVE CollapseWs(_)
CollapseWs(s) ==
  IF s = Empty THEN Empty
  ELSE IF IsSpace(s[1])
       THEN IF Len(s) > 1 /\ IsSpace(s[2])
            THEN CollapseWs(Tail(s))
            ELSE <<SP>> \o CollapseWs(Tail(s))
       ELSE <<s[1]>> \o CollapseWs(Tail(s))

RECURSIVE TrimStart(_)
TrimStart(s) ==
  IF s # Empty /\ IsSpace(s[1]) THEN TrimStart(Tail(s)) ELSE s

RECURSIVE TrimEnd(_)
TrimEnd(s) ==
  IF s # Empty /\ IsSpace(s[Len(s)]) THEN TrimEnd(SubSeq(s, 1, Len(s) - 1)) ELSE s

\* String.prototype.trim
Trim(s) == TrimEnd(TrimStart(s))

\* String(s || "") for a string s: a string is kept, the empty string is falsy
\* and is replaced by ""
StringOrEmpty(s) == IF s = Empty THEN Empty ELSE s

normalizeText(s) == Trim(CollapseWs(ToLowerCase(StringOrEmpty(s))))

\* n.split(" "): the pieces between single spaces, empty pieces included
RECURSIVE SplitFrom(_, _)
SplitFrom(s, cur) ==
  IF s = Empty THEN <<cur>>
  ELSE IF s[1] = SP THEN <<cur>> \o SplitFrom(Tail(s), Empty)
       ELSE SplitFrom(Tail(s), Append(cur, s[1]))

Split(s) == SplitFrom(s, Empty)

\* .filter(Boolean) on an array of strings: empty strings are dropped
FilterBoolean(parts) == SelectSeq(parts, LAMBDA p : p # Empty)

\* Array.prototype.join
RECURSIVE Join(_, _)
Join(parts, sep) ==
  IF parts = << >> THEN Empty
  ELSE IF Len(parts) = 1 THEN parts[1]
       ELSE parts[1] \o sep \o Join(Tail(parts), sep)

\* parts.slice(0, -1)
SliceButLast(parts) ==
  IF Len(parts) = 0 THEN << >> ELSE SubSeq(parts, 1, Len(parts) - 1)

Delim == <<" ", "|", " ">>

\* slip: the two full-name forms emitted in the wrong order
KeyPartsSwapped(firstLast, lastFirst, last, first, compact) ==
  <<lastFirst, firstLast, last, first, compact>>

KeyParts(firstLast, lastFirst, last, first, compact) ==
  <<firstLast, lastFirst, last, first, compact>>

\* slip: the key is built from the raw name, normalizeText is forgotten
buildSearchKeyRaw(fullName) ==
  LET n == fullName IN
  IF n = Empty THEN Empty
  ELSE LET parts == FilterBoolean(Split(n))
           first == IF Len(parts) > 0 THEN parts[1] ELSE Empty
           last == IF Len(parts) > 1 THEN parts[Len(parts)] ELSE first
           firstLast == Join(parts, <<SP>>)
           lastFirst == Trim(Join(<<last>> \o SliceButLast(parts), <<SP>>))
           compact == Join(parts, Empty)
       IN Join(KeyParts(firstLast, lastFirst, last, first, compact), Delim)

buildSearchKey(fullName) ==
  LET n == normalizeText(fullName) IN
  IF n = Empty THEN Empty
  ELSE LET parts == FilterBoolean(Split(n))
           first == IF Len(parts) > 0 THEN parts[1] ELSE Empty
           last == IF Len(parts) > 1 THEN parts[Len(parts)] ELSE first
           firstLast == Join(parts, <<SP>>)
           lastFirst == Trim(Join(<<last>> \o SliceButLast(parts), <<SP>>))
           compact == Join(parts, Empty)
       IN Join(KeyParts(firstLast, lastFirst, last, first, compact), Delim)

\* String.prototype.includes
Includes(hay, needle) ==
  \E i \in 0..(Len(hay) - Len(needle)) :
    \A j \in 1..Len(needle) : hay[i + j] = needle[j]

\* list.slice(0, n)
SliceFirst(list, n) == SubSeq(list, 1, Min(Len(list), n))

\* the option entries {name, key} built by SearchSelect
KeyedList(options) ==
  [i \in 1..Len(options) |-> [name |-> options[i], key |-> buildSearchKey(options[i])]]

\* slip: the query is looked up in the displayed name, not in the key
MatchesName(o, qq) == Includes(o.name, qq)

Matches(o, qq) == Includes(o.key, qq)

\* slip: the list is cut to 150 before it is filtered
OptsSliceBeforeFilter(options, q) ==
  LET list == KeyedList(options)
      qq == normalizeText(q)
  IN IF qq = Empty THEN SliceFirst(list, MaxOptions)
     ELSE SelectSeq(SliceFirst(list, MaxOptions), LAMBDA o : Matches(o, qq))

\* slip: the raw query is matched, normalizeText(q) is forgotten
OptsRawQuery(options, q) ==
  LET list == KeyedList(options)
      qq == q
  IN IF qq = Empty THEN SliceFirst(list, MaxOptions)
     ELSE SliceFirst(SelectSeq(list, LAMBDA o : Matches(o, qq)), MaxOptions)

\* slip: the filtered list is returned without the cut to 150
OptsUncappedFilter(options, q) ==
  LET list == KeyedList(options)
      qq == normalizeText(q)
  IN IF qq = Empty THEN SliceFirst(list, MaxOptions)
     ELSE SelectSeq(list, LAMBDA o : Matches(o, qq))

\* the memoised opts of SearchSelect
Opts(options, q) ==
  LET list == KeyedList(options)
      qq == normalizeText(q)
  IN IF qq = Empty THEN SliceFirst(list, MaxOptions)
     ELSE SliceFirst(SelectSeq(list, LAMBDA o : Matches(o, qq)), MaxOptions)

(***************************************************************************)
(* JavaScript values handed to the helpers                                 *)
(*                                                                         *)
(* A value is a record [t, v]: t is the kind, v the payload.  A number is  *)
(* its value in units of 1/Scale, a string is a sequence of characters, an *)
(* array is a sequence of values.  "bare" is an object without a string    *)
(* conversion (Object.create(null)): String(x) throws a TypeError for it.  *)
(***************************************************************************)
Scale == 100000

Undefined == [t |-> "undefined", v |-> 0]

Null == [t |-> "null", v |-> 0]

Bool(b) == [t |-> "boolean", v |-> b]

Num(m) == [t |-> "number", v |-> m]

Str(s) == [t |-> "string", v |-> s]

PlainObject == [t |-> "object", v |-> 0]

BareObject == [t |-> "bare", v |-> 0]

Arr(list) == [t |-> "array", v |-> list]

\* the outcome of a call: a returned string or list, or a thrown TypeError
Ok(x) == [st |-> "ok", v |-> x]

Throw == [st |-> "throw", v |-> Empty]

NotCalled == [st |-> "none", v |-> Empty]

Abs(n) == IF n < 0 THEN 0 - n ELSE n

RECURSIVE Pow10(_)
Pow10(d) == IF d = 0 THEN 1 ELSE 10 * Pow10(d - 1)

DigitChar(d) == <<"0", "1", "2", "3", "4", "5", "6", "7", "8", "9">>[d + 1]

\* the decimal digits of a natural number
RECURSIVE Digits(_)
Digits(n) == IF n < 10 THEN <<DigitChar(n)>> ELSE Append(Digits(n \div 10), DigitChar(n % 10))

RECURSIVE PadLeft(_, _)
PadLeft(s, width) == IF Len(s) >= width THEN s ELSE PadLeft(<<"0">> \o s, width)

\* the natural number n read as n / 10^d, written with exactly d decimals
FixedDigits(n, d) ==
  LET ds == PadLeft(Digits(n), d + 1)
  IN IF d = 0 THEN ds
     ELSE SubSeq(ds, 1, Len(ds) - d) \o <<".">> \o SubSeq(ds, Len(ds) - d + 1, Len(ds))

RECURSIVE StripZeros(_)
StripZeros(s) ==
  IF s[Len(s)] = "0" THEN StripZeros(SubSeq(s, 1, Len(s) - 1))
  ELSE IF s[Len(s)] = "." THEN SubSeq(s, 1, Len(s) - 1)
  ELSE s

SignOf(m) == IF m < 0 THEN <<"-">> ELSE Empty

\* Number.prototype.toFixed(d): the nearest multiple of 10^-d, the larger one
\* on a tie, computed on the absolute value, with exactly d decimals
toFixed(m, d) ==
  SignOf(m) \o FixedDigits((Abs(m) * Pow10(d) + (Scale \div 2)) \div Scale, d)

isInteger(m) == m % Scale = 0

\* Math.round(v * 10000), in units of 1/10000: halves go up
Round4(m) == (m + 5) \div 10

\* String(x) for a finite number x = n / 10^d: the shortest decimal
DecimalString(n, d) ==
  IF n = 0 THEN <<"0">> ELSE SignOf(n) \o StripZeros(FixedDigits(Abs(n), d))

NumberToString(m) ==
  IF isInteger(m) THEN SignOf(m) \o Digits(Abs(m) \div Scale)
  ELSE DecimalString(m, 5)

\* the truthiness of a value (deciding x || "")
Truthy(x) ==
  CASE x.t \in {"undefined", "null"} -> FALSE
    [] x.t = "boolean" -> x.v
    [] x.t = "number" -> x.v # 0
    [] x.t = "string" -> x.v # Empty
    [] OTHER -> TRUE

\* String(x)
ToStringJs(x) ==
  CASE x.t = "undefined" -> Ok(<<"u", "n", "d", "e", "f", "i", "n", "e", "d">>)
    [] x.t = "null" -> Ok(<<"n", "u", "l", "l">>)
    [] x.t = "boolean" -> Ok(IF x.v THEN <<"t", "r", "u", "e">> ELSE <<"f", "a", "l", "s", "e">>)
    [] x.t = "number" -> Ok(NumberToString(x.v))
    [] x.t = "string" -> Ok(x.v)
    [] x.t = "object" -> Ok(<<"[", "o", "b", "j", "e", "c", "t", " ", "O", "b", "j", "e", "c", "t", "]">>)
    [] OTHER -> Throw

\* slip: s ?? "" replaces the absent values only, 0 and false are kept
OrEmptyStringNullish(x) == IF x.t \in {"undefined", "null"} THEN Str(Empty) ELSE x

\* s || ""
OrEmptyString(x) == IF Truthy(x) THEN x ELSE Str(Empty)

\* normalizeText applied to any value
normalizeTextOf(s) ==
  LET str == ToStringJs(OrEmptyString(s))
  IN IF str.st = "throw" THEN Throw
     ELSE Ok(Trim(CollapseWs(ToLowerCase(str.v))))

\* the key built from an already normalized name (lines 75-84)
KeyOfNormalized(n) ==
  IF n = Empty THEN Empty
  ELSE LET parts == FilterBoolean(Split(n))
           first == IF Len(parts) > 0 THEN parts[1] ELSE Empty
           last == IF Len(parts) > 1 THEN parts[Len(parts)] ELSE first
           firstLast == Join(parts, <<SP>>)
           lastFirst == Trim(Join(<<last>> \o SliceButLast(parts), <<SP>>))
           compact == Join(parts, Empty)
       IN Join(KeyParts(firstLast, lastFirst, last, first, compact), Delim)

\* buildSearchKey applied to any value
buildSearchKeyOf(fullName) ==
  LET n == normalizeTextOf(fullName)
  IN IF n.st = "throw" THEN Throw ELSE Ok(KeyOfNormalized(n.v))

\* options || []
OrEmptyArray(options) == IF Truthy(options) THEN options ELSE Arr(<< >>)

\* the memoised opts of SearchSelect for any options and query values: only
\* an array has a map method, calling it on another truthy value throws
OptsOf(options, q) ==
  LET base == OrEmptyArray(options)
  IN IF base.t # "array" THEN Throw
     ELSE LET keys == [i \in 1..Len(base.v) |-> buildSearchKeyOf(base.v[i])]
              qq == normalizeTextOf(q)
          IN IF (\E i \in 1..Len(keys) : keys[i].st = "throw") \/ qq.st = "throw"
             THEN Throw
             ELSE LET list == [i \in 1..Len(keys) |->
                                 [name |-> base.v[i], key |-> keys[i].v]]
                  IN IF qq.v = Empty THEN Ok(SliceFirst(list, MaxOptions))
                     ELSE Ok(SliceFirst(SelectSeq(list, LAMBDA o : Matches(o, qq.v)),
                                        MaxOptions))

\* the substrings of a column key that select a number format (lines 15-22)
EconWord == <<"e", "c", "o", "n">>

SrWord == <<"s", "r">>

SrPrefixWord == <<"s", "r", "_">>

SrSuffixWord == <<"_", "s", "r">>

StrikeWord == <<"s", "t", "r", "i", "k", "e">>

DismissWord == <<"d", "i", "s", "m", "i", "s", "s">>

WicketPctWord == <<"w", "i", "c", "k", "e", "t", "_", "p", "c", "t">>

WicketPctPerStartWord == <<"w", "i", "c", "k", "e", "t", "_", "p", "c", "t", "_", "p", "e", "r", "_", "s", "t", "a", "r", "t">>

ShareWord == <<"s", "h", "a", "r", "e">>

\* the default parameter key = "": it replaces undefined only
KeyOrDefault(key) == IF key.t = "undefined" THEN Str(Empty) ELSE key

\* slip: the share rule is tried before the economy rule
formatCellShareFirst(v, key) ==
  IF v.t \in {"null", "undefined"} THEN Ok(Empty)
  ELSE IF v.t = "number"
  THEN LET ks == ToStringJs(KeyOrDefault(key))
       IN IF ks.st = "throw" THEN Throw
          ELSE LET k == ToLowerCase(ks.v)
               IN IF Includes(k, ShareWord) THEN Ok(toFixed(v.v, 1))
                  ELSE IF Includes(k, EconWord) THEN Ok(toFixed(v.v, 2))
                  ELSE IF \/ k = SrWord \/ Includes(k, SrPrefixWord) \/ Includes(k, SrSuffixWord)
                          \/ Includes(k, StrikeWord)
                       THEN Ok(toFixed(v.v, 1))
                  ELSE IF Includes(k, DismissWord) THEN Ok(toFixed(v.v, 1))
                  ELSE IF Includes(k, WicketPctWord) \/ Includes(k, WicketPctPerStartWord)
                       THEN Ok(toFixed(v.v, 1))
                  ELSE IF isInteger(v.v) THEN Ok(NumberToString(v.v))
                  ELSE Ok(DecimalString(Round4(v.v), 4))
  ELSE ToStringJs(v)

formatCell(v, key) ==
  IF v.t \in {"null", "undefined"} THEN Ok(Empty)
  ELSE IF v.t = "number"
  THEN LET ks == ToStringJs(KeyOrDefault(key))
       IN IF ks.st = "throw" THEN Throw
          ELSE LET k == ToLowerCase(ks.v)
               IN IF Includes(k, EconWord) THEN Ok(toFixed(v.v, 2))
                  ELSE IF \/ k = SrWord \/ Includes(k, SrPrefixWord) \/ Includes(k, SrSuffixWord)
                          \/ Includes(k, StrikeWord)
                       THEN Ok(toFixed(v.v, 1))
                  ELSE IF Includes(k, DismissWord) THEN Ok(toFixed(v.v, 1))
                  ELSE IF Includes(k, WicketPctWord) \/ Includes(k, WicketPctPerStartWord)
                       THEN Ok(toFixed(v.v, 1))
                  ELSE IF Includes(k, ShareWord) THEN Ok(toFixed(v.v, 1))
                  ELSE IF isInteger(v.v) THEN Ok(NumberToString(v.v))
                  ELSE Ok(DecimalString(Round4(v.v), 4))
  ELSE ToStringJs(v)

\* the one-character string U+2014 (em dash)
Dash == <<"EM DASH">>

Absent(value) == value.t \in {"null", "undefined"}

\* slip: every falsy value (0, false, "") is shown as a dash
fmtFalsy(value, key) == IF ~Truthy(value) THEN Ok(Dash) ELSE formatCell(value, key)

fmt(value, key) == IF Absent(value) THEN Ok(Dash) ELSE formatCell(value, key)

fmtPct(value, key) ==
  IF Absent(value) THEN Ok(Dash)
  ELSE LET s == formatCell(value, key)
       IN IF s.st = "throw" THEN Throw ELSE Ok(s.v \o <<"%">>)

(***************************************************************************)
(* Sorted and limited table rows                                           *)
(*                                                                         *)
(* A fetched row is null or an object with the three sort fields; a field  *)
(* the row does not have is undefined.                                     *)
(***************************************************************************)
TopN == 10

Row(sr, srVsBowler, wicketPct) ==
  [t |-> "row",
   v |-> [sr |-> sr, sr_vs_bowler |-> srVsBowler, wicket_pct_per_start |-> wicketPct]]

\* b?.field
FieldOf(row, field) ==
  IF row.t \in {"null", "undefined"} THEN Undefined ELSE row.v[field]

NaN == [nan |-> TRUE, v |-> 0]

Finite(m) == [nan |-> FALSE, v |-> m]

IsDigit(c) == \E d \in 0..9 : DigitChar(d) = c

RECURSIVE DigitsValue(_)
DigitsValue(s) ==
  IF s = Empty THEN 0
  ELSE 10 * DigitsValue(SubSeq(s, 1, Len(s) - 1))
       + (CHOOSE d \in 0..9 : DigitChar(d) = s[Len(s)])

\* Number(s) for a string: blank text is 0, an unsigned decimal numeral of at
\* most five decimals is its value, any other text is NaN
StringToNumber(s) ==
  LET x == Trim(s)
      points == {i \in 1..Len(x) : x[i] = "."}
      whole == IF points = {} THEN x
               ELSE SubSeq(x, 1, (CHOOSE i \in points : TRUE) - 1)
      frac == IF points = {} THEN Empty
              ELSE SubSeq(x, (CHOOSE i \in points : TRUE) + 1, Len(x))
  IN IF x = Empty THEN Finite(0)
     ELSE IF /\ \A i \in 1..Len(x) : IsDigit(x[i]) \/ x[i] = "."
             /\ Cardinality(points) <= 1
             /\ Len(whole) + Len(frac) > 0
             /\ Len(frac) <= 5
          THEN Finite(DigitsValue(whole) * Scale
                      + DigitsValue(frac) * Pow10(5 - Len(frac)))
          ELSE NaN

\* Number(x)
ToNumber(x) ==
  CASE x.t = "number" -> Finite(x.v)
    [] x.t = "null" -> Finite(0)
    [] x.t = "boolean" -> Finite(IF x.v THEN Scale ELSE 0)
    [] x.t = "string" -> StringToNumber(x.v)
    [] OTHER -> NaN

\* n || 0: NaN and 0 are falsy
OrZero(n) == IF n.nan THEN 0 ELSE n.v

\* Number(row?.field) || 0
SortKey(row, field) == OrZero(ToNumber(FieldOf(row, field)))

\* the comparator (a, b) => (Number(b?.field) || 0) - (Number(a?.field) || 0)
Compare(a, b, field) == SortKey(b, field) - SortKey(a, field)

\* x put behind the last element that does not sort after it
RECURSIVE InsertStable(_, _, _)
InsertStable(sorted, x, field) ==
  IF sorted = << >> THEN <<x>>
  ELSE IF Compare(sorted[Len(sorted)], x, field) <= 0
       THEN Append(sorted, x)
       ELSE Append(InsertStable(SubSeq(sorted, 1, Len(sorted) - 1), x, field),
                   sorted[Len(sorted)])

\* Array.prototype.sort with the comparator: the sort is stable
RECURSIVE SortRows(_, _)
SortRows(list, field) ==
  IF list = << >> THEN << >>
  ELSE InsertStable(SortRows(SubSeq(list, 1, Len(list) - 1), field),
                    list[Len(list)], field)

\* [...(rows || [])].sort(comparator): the copy is sorted, the fetched array
\* is left as it is
SortCopy(rows, field) ==
  LET list == OrEmptyArray(rows).v
  IN [source |-> rows, result |-> SortRows(list, field)]

TableNames == {"batterTeamRows", "bowlerTeamRows", "bestBattersTop10",
               "bestBowlersTop10", "top5BattersSorted", "top5BowlersSorted"}

\* the field a table is sorted by
SortFieldOf(table) ==
  CASE table \in {"batterTeamRows", "bestBattersTop10"} -> "sr"
    [] table = "top5BattersSorted" -> "sr_vs_bowler"
    [] OTHER -> "wicket_pct_per_start"

\* the tables cut with .slice(0, 10)
Limited(table) == table \in {"bestBattersTop10", "bestBowlersTop10"}

\* slip: the rows are cut to ten before they are sorted
TableRowsSliceFirst(table, rows) ==
  LET list == OrEmptyArray(rows).v
      cut == IF Limited(table) THEN Arr(SliceFirst(list, TopN)) ELSE rows
      sorted == SortCopy(cut, SortFieldOf(table))
  IN [source |-> rows, result |-> sorted.result]

\* the memoised rows of a table
TableRows(table, rows) ==
  LET sorted == SortCopy(rows, SortFieldOf(table))
  IN [source |-> sorted.source,
      result |-> IF Limited(table) THEN SliceFirst(sorted.result, TopN)
                 ELSE sorted.result]

(***************************************************************************)
(* State                                                                   *)
(***************************************************************************)
VARIABLES
  \* pure search helpers applied to one raw name
  kName, kCalls, kNorm, kNorm2, kKeyRaw, kKeyNorm,
  \* the helpers applied to arbitrary values: arguments and outcomes
  jValue, jKey, jOptions, jQuery, jOut,
  \* one SearchSelect instance under an arbitrary parent
  cOptions, cValue, cDisabled, cOpen, cQ,
  \* event log: the handler of that SearchSelect that ran last
  cEvent,
  \* the App component
  players, playersPhase, loadingPlayers, error, over0, ball1to6,
  batter, bowler, data, loading, requests, issued, settled, ctrl,
  selOpen, selQ,
  \* how the most recently issued matchup request ended
  latest,
  \* the row list fetched for the tables, and the rows each table shows
  tRows, tShown

keyVars == <<kName, kCalls, kNorm, kNorm2, kKeyRaw, kKeyNorm>>

comboVars == <<cOptions, cValue, cDisabled, cOpen, cQ, cEvent>>

appVars == <<players, playersPhase, loadingPlayers, error, over0, ball1to6,
             batter, bowler, data, loading, requests, issued, settled, ctrl,
             selOpen, selQ, latest>>

jsVars == <<jValue, jKey, jOptions, jQuery, jOut>>

tableVars == <<tRows, tShown>>

vars == <<keyVars, jsVars, tableVars, comboVars, appVars>>

\* all strings over an alphabet up to a length
Strings(alphabet, n) == UNION {[1..k -> alphabet] : k \in 0..n}

NameAlphabet == {"a", "b", "A", " ", "\t"}

RawNames == Strings(NameAlphabet, MaxNameLen)

(***************************************************************************)
(* Initial values of the parts a specification does not exercise           *)
(***************************************************************************)
KeyIdle ==
  /\ kName = Empty /\ kCalls = {} /\ kNorm = Empty /\ kNorm2 = Empty
  /\ kKeyRaw = Empty /\ kKeyNorm = Empty

JsFns == {"normalizeText", "buildSearchKey", "opts", "formatCell", "fmt", "fmtPct"}

TableIdle ==
  /\ tRows = Undefined /\ tShown = [t \in TableNames |-> NotCalled]

JsIdle ==
  /\ jValue = Undefined /\ jKey = Undefined /\ jOptions = Undefined
  /\ jQuery = Str(Empty) /\ jOut = [f \in JsFns |-> NotCalled]

ComboIdle ==
  /\ cOptions = << >> /\ cValue = Empty /\ cDisabled = FALSE
  /\ cOpen = FALSE /\ cQ = Empty /\ cEvent = "none"

Selects == {"batter", "bowler"}

\* App state after the first render and the mount effects (lines 217-241)
AppInit ==
  /\ players = << >>
  /\ playersPhase = "pending"
  /\ loadingPlayers = TRUE
  /\ error = ""
  /\ over0 = 0
  /\ ball1to6 = 1
  /\ batter = Empty
  /\ bowler = Empty
  /\ data = << >>
  /\ loading = FALSE
  /\ requests = {}
  /\ issued = 0
  /\ settled = "none"
  /\ ctrl = 0
  /\ selOpen = [s \in Selects |-> FALSE]
  /\ selQ = [s \in Selects |-> Empty]
  /\ latest = "none"

(***************************************************************************)
(* Pure helpers: normalizeText and buildSearchKey applied to a raw name    *)
(***************************************************************************)
KeyInit ==
  /\ kName \in RawNames
  /\ kCalls = {} /\ kNorm = Empty /\ kNorm2 = Empty
  /\ kKeyRaw = Empty /\ kKeyNorm = Empty

CallNormalize ==
  /\ "norm" \notin kCalls
  /\ kNorm' = normalizeText(kName)
  /\ kCalls' = kCalls \cup {"norm"}
  /\ UNCHANGED <<kName, kNorm2, kKeyRaw, kKeyNorm>>
  /\ UNCHANGED <<jsVars, tableVars, comboVars, appVars>>

CallNormalizeAgain ==
  /\ "norm" \in kCalls /\ "norm2" \notin kCalls
  /\ kNorm2' = normalizeText(kNorm)
  /\ kCalls' = kCalls \cup {"norm2"}
  /\ UNCHANGED <<kName, kNorm, kKeyRaw, kKeyNorm>>
  /\ UNCHANGED <<jsVars, tableVars, comboVars, appVars>>

CallBuildKey ==
  /\ "key" \notin kCalls
  /\ kKeyRaw' = buildSearchKey(kName)
  /\ kCalls' = kCalls \cup {"key"}
  /\ UNCHANGED <<kName, kNorm, kNorm2, kKeyNorm>>
  /\ UNCHANGED <<jsVars, tableVars, comboVars, appVars>>

CallBuildKeyOfNormalized ==
  /\ "norm" \in kCalls /\ "keyNorm" \notin kCalls
  /\ kKeyNorm' = buildSearchKey(kNorm)
  /\ kCalls' = kCalls \cup {"keyNorm"}
  /\ UNCHANGED <<kName, kNorm, kNorm2, kKeyRaw>>
  /\ UNCHANGED <<jsVars, tableVars, comboVars, appVars>>

KeyNext ==
  \/ CallNormalize
  \/ CallNormalizeAgain
  \/ CallBuildKey
  \/ CallBuildKeyOfNormalized

InitKey == KeyInit /\ JsIdle /\ TableIdle /\ ComboIdle /\ AppInit

SpecKey == InitKey /\ [][KeyNext]_vars

(***************************************************************************)
(* Properties of the pure helpers (checked under SpecKey)                  *)
(***************************************************************************)

\* C9: for every name n, buildSearchKey(n) = buildSearchKey(normalizeText(n))
\* and normalizeText(normalizeText(n)) = normalizeText(n).
C9_KeyIdempotentUnderNormalization ==
  /\ ({"key", "keyNorm"} \subseteq kCalls => kKeyRaw = kKeyNorm)
  /\ ("norm2" \in kCalls => kNorm2 = kNorm)

\* a name that normalization changes, with all four calls made
C9_Witness ==
  /\ kCalls = {"norm", "norm2", "key", "keyNorm"}
  /\ kNorm # kName
  /\ kNorm # Empty
  /\ \E i \in 1..Len(kName) : kName[i] = "A"
  /\ \E i \in 1..Len(kName) : kName[i] = "\t"

\* the lower-cased maximal runs of non-whitespace characters of a raw name
RECURSIVE WordsFrom(_, _)
WordsFrom(s, cur) ==
  LET flush == IF cur = Empty THEN << >> ELSE <<cur>> IN
  IF s = Empty THEN flush
  ELSE IF IsSpace(s[1]) THEN flush \o WordsFrom(Tail(s), Empty)
       ELSE WordsFrom(Tail(s), Append(cur, LowerChar(s[1])))

Words(s) == WordsFrom(s, Empty)

RECURSIVE Concat(_)
Concat(ws) == IF ws = << >> THEN Empty ELSE ws[1] \o Concat(Tail(ws))

RECURSIVE Spaced(_)
Spaced(ws) ==
  IF ws = << >> THEN Empty
  ELSE IF Len(ws) = 1 THEN ws[1] ELSE ws[1] \o <<" ">> \o Spaced(Tail(ws))

\* C10: for a name with at least one token the key is
\* firstLast | lastFirst | last | first | compact, lastFirst being the last
\* token followed by all tokens but the last; a single-token name gives five
\* copies of the token; an empty normalized name gives the empty key.
C10_KeyIsFiveParts ==
  "key" \in kCalls =>
    LET t == Words(kName)
        n == Len(t)
        bar == <<" ", "|", " ">>
    IN IF n = 0 THEN kKeyRaw = Empty
       ELSE LET lastFirst == IF n = 1 THEN t[1]
                             ELSE t[n] \o <<" ">> \o Spaced(SubSeq(t, 1, n - 1))
            IN /\ kKeyRaw = Spaced(t) \o bar \o lastFirst \o bar \o t[n]
                              \o bar \o t[1] \o bar \o Concat(t)
               /\ n = 1 => kKeyRaw = t[1] \o bar \o t[1] \o bar \o t[1]
                                       \o bar \o t[1] \o bar \o t[1]

\* a three-token name whose key has been built
C10_Witness ==
  /\ "key" \in kCalls
  /\ Len(Words(kName)) = 3
  /\ kKeyRaw # Empty

(***************************************************************************)
(* Pure helpers applied to arbitrary values: normalizeText, buildSearchKey,*)
(* the candidate filter, formatCell, fmt and fmtPct                        *)
(***************************************************************************)
\* numbers in units of 1/Scale: 0, 42, 12, 7.5, 133.33333, 3.14159, 0.125,
\* 0.03125, -2.5 and -0.00001.  The values that fall halfway between two
\* roundings (0.125 at two decimals, 0.03125 at four) are exact binary
\* fractions, so their rounding does not depend on the floating-point error.
JsNumbers == {0, 42 * Scale, 12 * Scale, 750000, 13333333, 314159, 12500, 3125,
              0 - 250000, 0 - 1}

JsStrings == {Empty, <<"A", " ", "b">>, <<" ", "\t">>, <<"5">>}

\* a value cell or a name: absent, boolean, number, string or object
JsValues ==
  {Undefined, Null, Bool(TRUE), Bool(FALSE), PlainObject, BareObject}
    \cup {Num(m) : m \in JsNumbers} \cup {Str(x) : x \in JsStrings}

\* column keys; undefined stands for an omitted key argument
JsKeys ==
  {Undefined, Null} \cup
  {Str(x) : x \in {<<"e", "c", "o", "n">>,
               <<"E", "C", "O", "N">>,
               <<"e", "c", "o", "n", "_", "s", "h", "a", "r", "e">>,
               <<"s", "r">>,
               <<"S", "R">>,
               <<"s", "r", "_", "b">>,
               <<"b", "_", "s", "r">>,
               <<"s", "r", "b">>,
               <<"s", "t", "r", "i", "k", "e">>,
               <<"d", "i", "s", "m", "i", "s", "s">>,
               <<"w", "i", "c", "k", "e", "t", "_", "p", "c", "t">>,
               <<"s", "h", "a", "r", "e">>,
               <<"s", "h", "a", "r", "e", "_", "s", "r">>,
               <<"b">>}}

\* option lists handed to SearchSelect, well-formed or not
JsOptions ==
  { Undefined, Null, Num(5 * Scale), Str(<<"a", "b">>), PlainObject,
    Arr(<< >>),
    Arr(<<Str(<<"A", " ", "b">>), Str(<<"b">>)>>),
    Arr(<<Str(<<"A", " ", "b">>), Num(5 * Scale), Null>>),
    Arr(<<Str(<<"b">>), BareObject>>) }

JsQueries == {Str(Empty), Str(<<"b">>), Str(<<"5">>), Null}

\* one call site: either a value with a key, or an option list with a query
JsInit ==
  /\ \/ /\ jValue \in JsValues /\ jKey \in JsKeys
        /\ jOptions = Undefined /\ jQuery = Str(Empty)
     \/ /\ jValue = Undefined /\ jKey = Undefined
        /\ jOptions \in JsOptions /\ jQuery \in JsQueries
  /\ jOut = [f \in JsFns |-> NotCalled]

Apply(f, outcome) ==
  /\ jOut[f] = NotCalled
  /\ jOut' = [jOut EXCEPT ![f] = outcome]
  /\ UNCHANGED <<jValue, jKey, jOptions, jQuery>>
  /\ UNCHANGED <<keyVars, tableVars, comboVars, appVars>>

ApplyNormalizeText == Apply("normalizeText", normalizeTextOf(jValue))

ApplyBuildSearchKey == Apply("buildSearchKey", buildSearchKeyOf(jValue))

ApplyOpts == Apply("opts", OptsOf(jOptions, jQuery))

ApplyFormatCell == Apply("formatCell", formatCell(jValue, jKey))

ApplyFmt == Apply("fmt", fmt(jValue, jKey))

ApplyFmtPct == Apply("fmtPct", fmtPct(jValue, jKey))

JsNext ==
  \/ ApplyNormalizeText
  \/ ApplyBuildSearchKey
  \/ ApplyOpts
  \/ ApplyFormatCell
  \/ ApplyFmt
  \/ ApplyFmtPct

InitJs == KeyIdle /\ JsInit /\ TableIdle /\ ComboIdle /\ AppInit

SpecJs == InitJs /\ [][JsNext]_vars

(***************************************************************************)
(* Properties of the helpers on arbitrary values (checked under SpecJs)    *)
(***************************************************************************)
\* C11 as stated: normalizeText returns the empty string for every input
\* that is absent (null, undefined) or not a string (number, boolean, object)
C11_NonStringNormalizesToEmpty ==
  (jOut["normalizeText"] # NotCalled /\ jValue.t # "string")
    => jOut["normalizeText"] = Ok(Empty)

\* C11 amended: normalizeText returns the empty string for every absent or
\* falsy input (null, undefined, 0, false); a truthy number, boolean or plain
\* object is converted with String() and that text is normalized
C11_FalsyNormalizesToEmpty ==
  jOut["normalizeText"] # NotCalled =>
    /\ ~Truthy(jValue) => jOut["normalizeText"] = Ok(Empty)
    /\ (Truthy(jValue) /\ jValue.t \in {"number", "boolean", "object"}) =>
         /\ jOut["normalizeText"] = Ok(normalizeText(ToStringJs(jValue).v))
         /\ jOut["normalizeText"] # Ok(Empty)

C11_Witness ==
  /\ jValue = Num(42 * Scale)
  /\ jOut["normalizeText"] = Ok(<<"4", "2">>)

\* the position of the decimal point in a numeral, 0 when it has none
PointAt(s) == IF \E i \in 1..Len(s) : s[i] = "."
              THEN CHOOSE i \in 1..Len(s) : s[i] = "." ELSE 0

\* the number of digits written after the decimal point
DecimalsOf(s) == IF PointAt(s) = 0 THEN 0 ELSE Len(s) - PointAt(s)

DigitValue(c) == CHOOSE d \in 0..9 : DigitChar(d) = c

\* the numeral read back, sign and decimal point dropped: "-12.50" is 1250
RECURSIVE NumeralDigits(_)
NumeralDigits(s) ==
  IF s = Empty THEN 0
  ELSE IF s[Len(s)] \in {".", "-"} THEN NumeralDigits(SubSeq(s, 1, Len(s) - 1))
  ELSE 10 * NumeralDigits(SubSeq(s, 1, Len(s) - 1)) + DigitValue(s[Len(s)])

\* the numeral s shows the number m (in units of 1/Scale) rounded to d
\* decimals: written with at most d decimals, it is off by at most half a
\* unit of the d-th decimal
ShowsRounded(s, m, d) ==
  LET unit == Scale \div Pow10(d)
      shown == NumeralDigits(s) * Pow10(d - DecimalsOf(s)) * unit
  IN /\ \A i \in 1..Len(s) : s[i] \in {".", "-"} \cup {DigitChar(c) : c \in 0..9}
     /\ DecimalsOf(s) <= d
     /\ Abs(shown - Abs(m)) * 2 <= unit
     /\ (s[1] = "-") => m < 0

\* the rule of section 4.2 selected by a column key, first match wins
RuleOf(key) ==
  LET k == ToLowerCase(IF key.t = "string" THEN key.v ELSE Empty)
  IN CASE Includes(k, EconWord) -> "econ"
       [] k = SrWord \/ Includes(k, SrPrefixWord) \/ Includes(k, SrSuffixWord)
            \/ Includes(k, StrikeWord) -> "sr"
       [] Includes(k, DismissWord) -> "dismiss"
       [] Includes(k, WicketPctWord) -> "wicket_pct"
       [] Includes(k, ShareWord) -> "share"
       [] OTHER -> "plain"

\* C12: for a numeric value formatCell applies the format of the first rule
\* that matches the lower-cased key: economy two decimals; strike rate,
\* dismissal, wicket ratio and share one decimal; otherwise an integer as it
\* is and any other number rounded to at most four decimals
C12_FirstMatchingRuleFormats ==
  (jOut["formatCell"] # NotCalled /\ jValue.t = "number") =>
    LET out == jOut["formatCell"]
        m == jValue.v
        rule == RuleOf(jKey)
    IN /\ out.st = "ok"
       /\ rule = "econ" => DecimalsOf(out.v) = 2 /\ ShowsRounded(out.v, m, 2)
       /\ rule \in {"sr", "dismiss", "wicket_pct", "share"} =>
            DecimalsOf(out.v) = 1 /\ ShowsRounded(out.v, m, 1)
       /\ (rule = "plain" /\ isInteger(m)) =>
            DecimalsOf(out.v) = 0 /\ ShowsRounded(out.v, m, 0)
       /\ (rule = "plain" /\ ~isInteger(m)) => ShowsRounded(out.v, m, 4)

\* 0.125 under the key "econ_share" is shown with two decimals
C12_Witness ==
  /\ jValue = Num(12500)
  /\ jKey = Str(<<"e", "c", "o", "n", "_", "s", "h", "a", "r", "e">>)
  /\ jOut["formatCell"] = Ok(<<"0", ".", "1", "3">>)

\* C13: for an absent value (null or undefined) formatCell returns "" while
\* fmt and fmtPct return the dash; for every present value fmt returns what
\* formatCell returns and fmtPct returns that text followed by "%"
C13_DashOnlyForAbsent ==
  LET cell == jOut["formatCell"]
      plain == jOut["fmt"]
      pct == jOut["fmtPct"]
  IN /\ (cell # NotCalled /\ Absent(jValue)) => cell = Ok(Empty)
     /\ (plain # NotCalled /\ Absent(jValue)) => plain = Ok(Dash)
     /\ (pct # NotCalled /\ Absent(jValue)) => pct = Ok(Dash)
     /\ (cell # NotCalled /\ plain # NotCalled /\ ~Absent(jValue)) => plain = cell
     /\ (cell # NotCalled /\ pct # NotCalled /\ ~Absent(jValue)) =>
          /\ pct.st = cell.st
          /\ cell.st = "ok" => pct.v = cell.v \o <<"%">>

\* the present but falsy value 0 is shown as "0" and "0%", not as a dash
C13_Witness ==
  /\ jValue = Num(0)
  /\ jOut["formatCell"] = Ok(<<"0">>)
  /\ jOut["fmt"] = Ok(<<"0">>)
  /\ jOut["fmtPct"] = Ok(<<"0", "%">>)

\* C14: normalizeText, buildSearchKey, the candidate filter, formatCell, fmt
\* and fmtPct never raise, whatever names, queries, option lists, values and
\* keys they are given, absent, malformed and wrongly typed ones included
C14_HelpersNeverRaise ==
  \A f \in JsFns : jOut[f].st # "throw"

(***************************************************************************)
(* SearchSelect: one combobox instance under an arbitrary parent           *)
(***************************************************************************)
\* player names offered by the parent; "" and "A  b" normalise differently
\* from how they are written, "b" and "a b" share the token b
PoolNames == << <<"a", " ", "b">>, <<"b">>, <<"A", " ", " ", "b">>, <<"b", "a">>, Empty >>

NameSet == {PoolNames[i] : i \in 1..Len(PoolNames)}

ShortLists == UNION {[1..k -> NameSet] : k \in 0..MaxShortList}

\* a long list cycling through three names that contain b, with one entry
\* (the hole) whose key is empty and a last entry listed nowhere else
LongList(len, hole) ==
  [i \in 1..len |-> IF i = hole THEN Empty
                    ELSE IF i = len THEN PoolNames[4]
                    ELSE PoolNames[(i % 3) + 1]]

LongLists ==
  {LongList(len, hole) : len \in (MaxOptions - 1)..(MaxOptions + MaxOverCap),
                         hole \in {0, 2, MaxOptions}}

OptionLists == ShortLists \cup LongLists

QueryAlphabet == {"b", "A", " ", "|"}

Queries == Strings(QueryAlphabet, 2)

ComboInit ==
  /\ cOptions \in OptionLists
  /\ cValue \in {Empty, PoolNames[1]}
  /\ cDisabled \in BOOLEAN
  /\ cOpen = FALSE
  /\ cQ = Empty
  /\ cEvent = "none"

\* the names of the entries currently offered
OptNames(options, q) ==
  LET o == Opts(options, q) IN {o[i].name : i \in 1..Len(o)}

\* the option rows rendered: the list is in the document only while open
COffered == IF cOpen THEN OptNames(cOptions, cQ) ELSE {}

\* slip: the effect on [value] is missing, the query is never cleared
QueryAfterValueKept(oldValue, newValue, q) == q

\* effect on [value]: the query is cleared when the value prop has changed
QueryAfterValue(oldValue, newValue, q) ==
  IF newValue # oldValue THEN Empty ELSE q

\* click on the combo button
CToggle ==
  /\ ~cDisabled
  /\ cOpen' = ~cOpen
  /\ UNCHANGED <<cOptions, cValue, cDisabled, cQ>>
  /\ UNCHANGED <<keyVars, jsVars, tableVars, appVars>>

\* typing in the search input (rendered only while open)
CType(s) ==
  /\ cOpen
  /\ cQ' = s
  /\ UNCHANGED <<cOptions, cValue, cDisabled, cOpen>>
  /\ UNCHANGED <<keyVars, jsVars, tableVars, appVars>>

\* click on an option: onChange(o.name); setOpen(false)
CClick(name) ==
  /\ cOpen
  /\ cValue' = name
  /\ cOpen' = FALSE
  /\ cQ' = QueryAfterValue(cValue, name, cQ)
  /\ UNCHANGED <<cOptions, cDisabled>>
  /\ UNCHANGED <<keyVars, jsVars, tableVars, appVars>>

\* Enter on a focused option: onChange(o.name)
CEnter(name) ==
  /\ cOpen
  /\ cValue' = name
  /\ cQ' = QueryAfterValue(cValue, name, cQ)
  /\ UNCHANGED <<cOptions, cDisabled, cOpen>>
  /\ UNCHANGED <<keyVars, jsVars, tableVars, appVars>>

\* mousedown outside the component
COutside ==
  /\ cOpen' = FALSE
  /\ UNCHANGED <<cOptions, cValue, cDisabled, cQ>>
  /\ UNCHANGED <<keyVars, jsVars, tableVars, appVars>>

\* the parent re-renders the component with a new options prop
CPropsOptions(options) ==
  /\ options # cOptions
  /\ cOptions' = options
  /\ UNCHANGED <<cValue, cDisabled, cOpen, cQ>>
  /\ UNCHANGED <<keyVars, jsVars, tableVars, appVars>>

\* the parent re-renders the component with a new value prop
CPropsValue(value) ==
  /\ value # cValue
  /\ cValue' = value
  /\ cQ' = QueryAfterValue(cValue, value, cQ)
  /\ UNCHANGED <<cOptions, cDisabled, cOpen>>
  /\ UNCHANGED <<keyVars, jsVars, tableVars, appVars>>

\* the parent re-renders the component with a new disabled prop
CPropsDisabled(disabled) ==
  /\ disabled # cDisabled
  /\ cDisabled' = disabled
  /\ UNCHANGED <<cOptions, cValue, cOpen, cQ>>
  /\ UNCHANGED <<keyVars, jsVars, tableVars, appVars>>

\* the handlers of one SearchSelect; this specification keeps no event log
ComboNext ==
  \/ CToggle /\ UNCHANGED cEvent
  \/ \E s \in Queries : CType(s) /\ UNCHANGED cEvent
  \/ \E name \in COffered : CClick(name) /\ UNCHANGED cEvent
  \/ \E name \in COffered : CEnter(name) /\ UNCHANGED cEvent
  \/ COutside /\ UNCHANGED cEvent
  \/ \E options \in OptionLists : CPropsOptions(options) /\ UNCHANGED cEvent
  \/ \E value \in NameSet : CPropsValue(value) /\ UNCHANGED cEvent
  \/ \E disabled \in BOOLEAN : CPropsDisabled(disabled) /\ UNCHANGED cEvent

InitCombo == KeyIdle /\ JsIdle /\ TableIdle /\ ComboInit /\ AppInit

SpecCombo == InitCombo /\ [][ComboNext]_vars

(***************************************************************************)
(* Properties of the option list (checked under SpecCombo)                 *)
(***************************************************************************)
\* positions of the candidates whose key contains the string qq
Hits(options, qq) ==
  {i \in 1..Len(options) : Includes(buildSearchKey(options[i]), qq)}

\* C5: for a query whose normalized form is non-empty the option list is the
\* first 150 elements of the subsequence of candidates whose key contains the
\* normalized query: order kept, duplicates kept, names unmodified.
C5_FilterIsCappedSubsequence ==
  LET qq == normalizeText(cQ)
      res == Opts(cOptions, cQ)
      hit == Hits(cOptions, qq)
  IN qq # Empty =>
       /\ Len(res) = Min(Cardinality(hit), 150)
       /\ \A i \in hit :
            LET rank == Cardinality({j \in hit : j <= i})
            IN rank <= 150 => res[rank].name = cOptions[i]

\* more than 150 candidates match, a non-matching one among them, and a
\* duplicate name is listed twice
C5_Witness ==
  LET qq == normalizeText(cQ)
      hit == Hits(cOptions, qq)
  IN /\ qq # Empty
     /\ Cardinality(hit) > 150
     /\ \E i \in 1..150 : i \notin hit
     /\ \E i, j \in hit : i < j /\ j <= 150 /\ cOptions[i] = cOptions[j]

\* C6 as stated: for every non-empty query q that is a substring of a
\* candidate's key, that candidate appears in the result.
C6_SubstringAlwaysListed ==
  LET names == OptNames(cOptions, cQ) IN
  \A i \in 1..Len(cOptions) :
    (cQ # Empty /\ Includes(buildSearchKey(cOptions[i]), cQ))
      => cOptions[i] \in names

\* C6 amended: ... that candidate appears in the result provided fewer than
\* 150 candidates before it match the normalized query (every candidate
\* matches when the query normalizes to the empty string).
C6_SubstringListedWithinCap ==
  LET qq == normalizeText(cQ)
      hit == Hits(cOptions, qq)
      names == OptNames(cOptions, cQ)
  IN \A i \in 1..Len(cOptions) :
       (/\ cQ # Empty
        /\ Includes(buildSearchKey(cOptions[i]), cQ)
        /\ Cardinality({j \in hit : j < i}) < 150)
         => cOptions[i] \in names

\* a query found in the key of the 151st candidate, which is listed because
\* an earlier candidate does not match
C6_Witness ==
  LET qq == normalizeText(cQ)
      hit == Hits(cOptions, qq)
      names == OptNames(cOptions, cQ)
  IN /\ cQ # Empty
     /\ Len(cOptions) > 150
     /\ \E i \in 151..Len(cOptions) :
          /\ Includes(buildSearchKey(cOptions[i]), cQ)
          /\ Cardinality({j \in hit : j < i}) < 150
          /\ \A j \in 1..(i - 1) : cOptions[j] # cOptions[i]
          /\ cOptions[i] \in names

\* C7: when the query normalizes to the empty string the result is the first
\* 150 candidates in original order, unfiltered, empty-key candidates included.
C7_EmptyQueryIsPrefix ==
  LET res == Opts(cOptions, cQ) IN
  normalizeText(cQ) = Empty =>
    /\ Len(res) = Min(Len(cOptions), 150)
    /\ \A k \in 1..Len(res) : res[k].name = cOptions[k]

\* a whitespace-only query over more than 150 candidates, one with empty key
C7_Witness ==
  /\ cQ # Empty
  /\ normalizeText(cQ) = Empty
  /\ Len(cOptions) > 150
  /\ \E k \in 1..150 : buildSearchKey(cOptions[k]) = Empty

\* C8: in every state reachable by keystrokes, option-list changes and
\* selections the displayed option list has at most 150 entries.
C8_AtMost150Displayed ==
  Len(Opts(cOptions, cQ)) <= 150

\* the dropdown is open on a filtered list cut down to exactly 150
C8_Witness ==
  /\ cOpen
  /\ normalizeText(cQ) # Empty
  /\ Cardinality(Hits(cOptions, normalizeText(cQ))) > 150
  /\ Len(Opts(cOptions, cQ)) = 150

(***************************************************************************)
(* SearchSelect with an event log: the same handlers, each step recording  *)
(* which handler ran                                                       *)
(***************************************************************************)
DropdownLists == ShortLists \cup {LongList(MaxOptions + 1, 2)}

DropdownInit ==
  /\ cOptions \in DropdownLists
  /\ cValue \in {Empty, PoolNames[1]}
  /\ cDisabled \in BOOLEAN
  /\ cOpen = FALSE
  /\ cQ = Empty
  /\ cEvent = "none"

DropdownNext ==
  \/ CToggle /\ cEvent' = "toggle"
  \/ \E s \in Queries : CType(s) /\ cEvent' = "type"
  \/ \E name \in COffered : CClick(name) /\ cEvent' = "click"
  \/ \E name \in COffered : CEnter(name) /\ cEvent' = "enter"
  \/ COutside /\ cEvent' = "outside"
  \/ \E options \in DropdownLists : CPropsOptions(options) /\ cEvent' = "props"
  \/ \E value \in NameSet : CPropsValue(value) /\ cEvent' = "props"
  \/ \E disabled \in BOOLEAN : CPropsDisabled(disabled) /\ cEvent' = "props"

InitDropdown == KeyIdle /\ JsIdle /\ TableIdle /\ DropdownInit /\ AppInit

SpecDropdown == InitDropdown /\ [][DropdownNext]_vars

(***************************************************************************)
(* Properties of the dropdown (checked under SpecDropdown)                 *)
(***************************************************************************)
\* C15: the dropdown is closed or open, closed at first; the toggle flips it,
\* a mousedown outside closes it, and every selection, by mouse click or by
\* Enter, reports the option through onChange and leaves the dropdown closed
C15_SelectionClosesDropdown ==
  /\ ~cOpen
  /\ [][/\ cOpen' \in BOOLEAN
        /\ cEvent' = "toggle" => cOpen' = ~cOpen
        /\ cEvent' = "outside" => ~cOpen'
        /\ cEvent' \in {"click", "enter"} => (~cOpen' /\ cValue' \in COffered)]_vars

\* C20 as stated: after an option is selected, by click or by Enter, the
\* query is "" and the list shown next is the unfiltered first 150 options
C20_SelectionResetsQuery ==
  cEvent \in {"click", "enter"} =>
    /\ cQ = Empty
    /\ Opts(cOptions, cQ) = SliceFirst(KeyedList(cOptions), MaxOptions)

\* C20 amended: after an option other than the current value is selected, by
\* click or by Enter, the query is "" and the list shown next is the
\* unfiltered first 150 options
C20_NewSelectionResetsQuery ==
  [][(cEvent' \in {"click", "enter"} /\ cValue' # cValue) =>
       /\ cQ' = Empty
       /\ Opts(cOptions', cQ') = SliceFirst(KeyedList(cOptions'), MaxOptions)]_vars

\* Enter picked an option of a list longer than 150: the dropdown is still
\* open and shows the first 150 options under an empty query
C20_Witness ==
  /\ cEvent = "enter"
  /\ cOpen
  /\ cQ = Empty
  /\ cValue = PoolNames[2]
  /\ Len(cOptions) > MaxOptions
  /\ Len(Opts(cOptions, cQ)) = MaxOptions

(***************************************************************************)
(* App: players fetch, controls and the matchup request effect             *)
(***************************************************************************)
\* responses of GET /api/players the backend may give
PlayersPayloads ==
  { [batters |-> <<PoolNames[1], Empty>>,
     bowlers |-> <<PoolNames[4], PoolNames[3]>>],
    [batters |-> << >>, bowlers |-> <<PoolNames[4]>>] }

\* strings typed into the search box of a selector of the App
AppQueries == {Empty, <<"A">>}

\* positions of the over slider and ball dots that are exercised: both ends
Overs == {0, MaxOver}

Balls == {1, MaxBall}

\* exceptions: String(e) is "name: message", or the name when message is ""
HttpError(prefix) == [name |-> "Error", message |-> prefix]

NetworkErrors == { [name |-> "TypeError", message |-> "Failed to fetch"] }

JsonSyntaxError == [name |-> "SyntaxError", message |-> "Unexpected token"]

AbortError == [name |-> "AbortError", message |-> "The user aborted a request."]

\* String(e.message || e)
ErrorText(e) == IF e.message # "" THEN e.message ELSE e.name

\* slip: the cancellation test is missing, every exception is a failure
MentionsAbortErrorNever(e) == FALSE

\* String(e).includes("AbortError"); no modelled message contains the word
MentionsAbortError(e) == e.name = "AbortError"

\* catch block of the matchup request: the error text after exception e
CatchMatchup(e, err) == IF MentionsAbortError(e) THEN err ELSE ErrorText(e)

\* slip: the finally block is missing, loading is left as it was
FinallyLoadingKept(ld) == ld

\* finally block of the matchup request: the loading flag afterwards
FinallyLoading(ld) == FALSE

\* d?.batters?.[0] || ""
FirstOrEmpty(list) == IF Len(list) > 0 /\ list[1] # Empty THEN list[1] ELSE Empty

battersList == IF players = << >> THEN << >> ELSE players[1].batters

bowlersList == IF players = << >> THEN << >> ELSE players[1].bowlers

OptionsOf(sel) == IF sel = "batter" THEN battersList ELSE bowlersList

ValueOf(sel) == IF sel = "batter" THEN batter ELSE bowler

\* slip: the 1-based ball is clamped without being shifted to 0-based
startBall0NoShift(ball) == Max(0, Min(5, ball))

startBall0Of(ball) == Max(0, Min(5, ball - 1))

canQueryOf(b, w) == b # Empty /\ w # Empty

\* dependency array of the matchup effect
Deps(b, w, o, ball) == <<canQueryOf(b, w), b, w, o, startBall0Of(ball)>>

\* the request sent by the effect for the given selection, as the id-th one
NewRequest(id, b, w, o, ball) ==
  [id |-> id, batter |-> b, bowler |-> w, start_over0 |-> o,
   start_ball0 |-> startBall0Of(ball), min_balls |-> MinBalls,
   phase |-> "fetch", aborted |-> FALSE]

\* slip: the cleanup does not abort
AbortControllerNoop(reqs, c) == reqs

\* cleanup of the effect: controller.abort() on the controller of request c
\* (without effect on a request that has settled)
AbortController(reqs, c) ==
  {IF r.id = c THEN [r EXCEPT !.aborted = TRUE] ELSE r : r \in reqs}

\* slip: the previous controller is aborted only after the canQuery guard
MatchupEffectAbortAfterGuard(b, w, o, ball, err, ld) ==
  IF Deps(b, w, o, ball) = Deps(batter, bowler, over0, ball1to6)
  THEN [requests |-> requests, issued |-> issued, ctrl |-> ctrl,
        error |-> err, loading |-> ld]
  ELSE IF canQueryOf(b, w)
       THEN [requests |-> AbortController(requests, ctrl)
                            \cup {NewRequest(issued + 1, b, w, o, ball)},
             issued |-> issued + 1, ctrl |-> issued + 1,
             error |-> "", loading |-> TRUE]
       ELSE [requests |-> requests, issued |-> issued, ctrl |-> ctrl,
             error |-> err, loading |-> ld]

\* the matchup effect after a render with selection (b, w, o, ball): when a
\* dependency changed, the cleanup of the previous run and then the new run
MatchupEffect(b, w, o, ball, err, ld) ==
  IF Deps(b, w, o, ball) = Deps(batter, bowler, over0, ball1to6)
  THEN [requests |-> requests, issued |-> issued, ctrl |-> ctrl,
        error |-> err, loading |-> ld]
  ELSE LET cleaned == AbortController(requests, ctrl) IN
       IF canQueryOf(b, w)
       THEN [requests |-> cleaned \cup {NewRequest(issued + 1, b, w, o, ball)},
             issued |-> issued + 1, ctrl |-> issued + 1,
             error |-> "", loading |-> TRUE]
       ELSE [requests |-> cleaned, issued |-> issued, ctrl |-> 0,
             error |-> err, loading |-> ld]

\* the state left by a render with selection (b, w, o, ball)
Render(b, w, o, ball) ==
  LET eff == MatchupEffect(b, w, o, ball, error, loading) IN
  /\ eff.issued <= MaxRequests
  /\ batter' = b
  /\ bowler' = w
  /\ over0' = o
  /\ ball1to6' = ball
  /\ requests' = eff.requests
  /\ issued' = eff.issued
  /\ ctrl' = eff.ctrl
  /\ error' = eff.error
  /\ loading' = eff.loading
  /\ latest' = IF eff.issued > issued THEN "pending" ELSE latest
  /\ UNCHANGED settled

\* the JSON body answered to request r, identified by the request
ResponseOf(r) == [req |-> r.id]

\* GET /api/players answered 200 with body d
PlayersOk(d) ==
  /\ playersPhase = "pending"
  /\ playersPhase' = "done"
  /\ players' = <<d>>
  /\ loadingPlayers' = FALSE
  /\ Render(FirstOrEmpty(d.batters), FirstOrEmpty(d.bowlers), over0, ball1to6)
  /\ selQ' = [s \in Selects |->
               QueryAfterValue(ValueOf(s),
                               IF s = "batter" THEN FirstOrEmpty(d.batters)
                               ELSE FirstOrEmpty(d.bowlers), selQ[s])]
  /\ UNCHANGED <<data, selOpen>>
  /\ UNCHANGED <<keyVars, jsVars, tableVars, comboVars>>

\* GET /api/players failed: non-OK status, network error or malformed body
PlayersFail(e) ==
  /\ playersPhase = "pending"
  /\ playersPhase' = "done"
  /\ error' = ErrorText(e)
  /\ loadingPlayers' = FALSE
  /\ UNCHANGED <<players, over0, ball1to6, batter, bowler, data, loading,
                 requests, issued, settled, ctrl, selOpen, selQ, latest>>
  /\ UNCHANGED <<keyVars, jsVars, tableVars, comboVars>>

\* the over slider is moved
SetOver0(o) ==
  /\ o # over0
  /\ Render(batter, bowler, o, ball1to6)
  /\ UNCHANGED <<players, playersPhase, loadingPlayers, data, selOpen, selQ>>
  /\ UNCHANGED <<keyVars, jsVars, tableVars, comboVars>>

\* a ball dot is clicked, or Enter is pressed on it
SetBall1to6(b) ==
  /\ b # ball1to6
  /\ Render(batter, bowler, over0, b)
  /\ UNCHANGED <<players, playersPhase, loadingPlayers, data, selOpen, selQ>>
  /\ UNCHANGED <<keyVars, jsVars, tableVars, comboVars>>

\* slip: the button is not disabled while the players are loading
ToggleWhileLoading(sel) ==
  /\ selOpen' = [selOpen EXCEPT ![sel] = ~selOpen[sel]]
  /\ UNCHANGED <<players, playersPhase, loadingPlayers, error, over0, ball1to6,
                 batter, bowler, data, loading, requests, issued, settled, ctrl, selQ,
                 latest>>
  /\ UNCHANGED <<keyVars, jsVars, tableVars, comboVars>>

\* click on the button of a selector
Toggle(sel) ==
  /\ ~loadingPlayers
  /\ selOpen' = [selOpen EXCEPT ![sel] = ~selOpen[sel]]
  /\ UNCHANGED <<players, playersPhase, loadingPlayers, error, over0, ball1to6,
                 batter, bowler, data, loading, requests, issued, settled, ctrl, selQ,
                 latest>>
  /\ UNCHANGED <<keyVars, jsVars, tableVars, comboVars>>

\* typing in the search box of an open selector
TypeQuery(sel, s) ==
  /\ selOpen[sel]
  /\ selQ' = [selQ EXCEPT ![sel] = s]
  /\ UNCHANGED <<players, playersPhase, loadingPlayers, error, over0, ball1to6,
                 batter, bowler, data, loading, requests, issued, settled, ctrl,
                 selOpen, latest>>
  /\ UNCHANGED <<keyVars, jsVars, tableVars, comboVars>>

\* the option rows a selector renders
Offered(sel) ==
  IF selOpen[sel] THEN OptNames(OptionsOf(sel), selQ[sel]) ELSE {}

\* onChange of a selector: setBatter or setBowler, then the render
SelectName(sel, name) ==
  /\ IF sel = "batter" THEN Render(name, bowler, over0, ball1to6)
                       ELSE Render(batter, name, over0, ball1to6)
  /\ selQ' = [selQ EXCEPT ![sel] = QueryAfterValue(ValueOf(sel), name, selQ[sel])]

\* click on an option of a selector
ClickOption(sel, name) ==
  /\ selOpen[sel]
  /\ SelectName(sel, name)
  /\ selOpen' = [selOpen EXCEPT ![sel] = FALSE]
  /\ UNCHANGED <<players, playersPhase, loadingPlayers, data>>
  /\ UNCHANGED <<keyVars, jsVars, tableVars, comboVars>>

\* Enter on a focused option of a selector
EnterOption(sel, name) ==
  /\ selOpen[sel]
  /\ SelectName(sel, name)
  /\ UNCHANGED <<players, playersPhase, loadingPlayers, data, selOpen>>
  /\ UNCHANGED <<keyVars, jsVars, tableVars, comboVars>>

\* mousedown outside a selector
MouseDownOutside(sel) ==
  /\ selOpen' = [selOpen EXCEPT ![sel] = FALSE]
  /\ UNCHANGED <<players, playersPhase, loadingPlayers, error, over0, ball1to6,
                 batter, bowler, data, loading, requests, issued, settled, ctrl, selQ,
                 latest>>
  /\ UNCHANGED <<keyVars, jsVars, tableVars, comboVars>>

\* the awaited promise of request r settles: r leaves the requests in flight
Settled(r, outcome) ==
  /\ requests' = requests \ {r}
  /\ settled' = outcome
  /\ latest' = IF r.id = issued THEN outcome ELSE latest

\* the promise awaited by request r is rejected with e: catch, then finally
SettleWithError(r, e, outcome) ==
  /\ Settled(r, outcome)
  /\ error' = CatchMatchup(e, error)
  /\ loading' = FinallyLoading(loading)
  /\ UNCHANGED <<players, playersPhase, loadingPlayers, over0, ball1to6,
                 batter, bowler, data, issued, ctrl, selOpen, selQ>>
  /\ UNCHANGED <<keyVars, jsVars, tableVars, comboVars>>

\* fetch resolves with an OK response; res.json() is awaited next
FetchOk(r) ==
  /\ r.phase = "fetch" /\ ~r.aborted
  /\ requests' = (requests \ {r}) \cup {[r EXCEPT !.phase = "json"]}
  /\ UNCHANGED <<players, playersPhase, loadingPlayers, error, over0, ball1to6,
                 batter, bowler, data, loading, issued, settled, ctrl,
                 selOpen, selQ, latest>>
  /\ UNCHANGED <<keyVars, jsVars, tableVars, comboVars>>

\* fetch resolves with a non-OK status: throw new Error("Matchup HTTP ...")
FetchNotOk(r) ==
  /\ r.phase = "fetch" /\ ~r.aborted
  /\ SettleWithError(r, HttpError("Matchup HTTP 500"), "http")

\* fetch rejects with a network error
FetchNetworkError(r, e) ==
  /\ r.phase = "fetch" /\ ~r.aborted
  /\ SettleWithError(r, e, "network")

\* res.json() resolves: setData, then finally
JsonOk(r) ==
  /\ r.phase = "json" /\ ~r.aborted
  /\ Settled(r, "ok")
  /\ data' = <<ResponseOf(r)>>
  /\ loading' = FinallyLoading(loading)
  /\ UNCHANGED <<players, playersPhase, loadingPlayers, error, over0, ball1to6,
                 batter, bowler, issued, ctrl, selOpen, selQ>>
  /\ UNCHANGED <<keyVars, jsVars, tableVars, comboVars>>

\* res.json() rejects because the body is not JSON
JsonSyntax(r) ==
  /\ r.phase = "json" /\ ~r.aborted
  /\ SettleWithError(r, JsonSyntaxError, "parse")

\* the awaited promise of an aborted request rejects with AbortError
AbortRejects(r) ==
  /\ r.aborted
  /\ SettleWithError(r, AbortError, "abort")

Next ==
  \/ \E d \in PlayersPayloads : PlayersOk(d)
  \/ \E e \in NetworkErrors \cup {HttpError("Players HTTP 500"), JsonSyntaxError} : PlayersFail(e)
  \/ \E o \in Overs : SetOver0(o)
  \/ \E b \in Balls : SetBall1to6(b)
  \/ \E sel \in Selects : Toggle(sel)
  \/ \E sel \in Selects, s \in AppQueries : TypeQuery(sel, s)
  \/ \E sel \in Selects : \E name \in Offered(sel) : ClickOption(sel, name)
  \/ \E sel \in Selects : \E name \in Offered(sel) : EnterOption(sel, name)
  \/ \E sel \in Selects : MouseDownOutside(sel)
  \/ \E r \in requests : FetchOk(r)
  \/ \E r \in requests : FetchNotOk(r)
  \/ \E r \in requests, e \in NetworkErrors : FetchNetworkError(r, e)
  \/ \E r \in requests : JsonOk(r)
  \/ \E r \in requests : JsonSyntax(r)
  \/ \E r \in requests : AbortRejects(r)

Init == KeyIdle /\ JsIdle /\ TableIdle /\ ComboIdle /\ AppInit

Spec == Init /\ [][Next]_vars

\* the promise a request awaits settles: fetch and res.json() end, with a
\* result or an error, and an aborted one rejects
Settles ==
  \E r \in requests :
    \/ FetchOk(r)
    \/ FetchNotOk(r)
    \/ \E e \in NetworkErrors : FetchNetworkError(r, e)
    \/ JsonOk(r)
    \/ JsonSyntax(r)
    \/ AbortRejects(r)

\* the steps of the App without typing in the search boxes: a query only
\* narrows the options offered, with the empty query every option of a list
\* of at most 150 names stays selectable
NextLive ==
  \/ \E d \in PlayersPayloads : PlayersOk(d)
  \/ \E e \in NetworkErrors \cup {HttpError("Players HTTP 500"), JsonSyntaxError} : PlayersFail(e)
  \/ \E o \in Overs : SetOver0(o)
  \/ \E b \in Balls : SetBall1to6(b)
  \/ \E sel \in Selects : Toggle(sel)
  \/ \E sel \in Selects : \E name \in Offered(sel) : ClickOption(sel, name)
  \/ \E sel \in Selects : \E name \in Offered(sel) : EnterOption(sel, name)
  \/ \E sel \in Selects : MouseDownOutside(sel)
  \/ \E r \in requests : FetchOk(r)
  \/ \E r \in requests : FetchNotOk(r)
  \/ \E r \in requests, e \in NetworkErrors : FetchNetworkError(r, e)
  \/ \E r \in requests : JsonOk(r)
  \/ \E r \in requests : JsonSyntax(r)
  \/ \E r \in requests : AbortRejects(r)

\* the App where no request stays pending for ever
SpecLive == Init /\ [][NextLive]_vars /\ WF_vars(Settles)

(***************************************************************************)
(* Properties of the matchup request effect (checked under Spec)           *)
(***************************************************************************)
Ids(reqs) == {r.id : r \in reqs}

\* C1: the displayed matchup data is only ever set from the response of the
\* most recently issued matchup request.
C1_DataOnlyFromLatestRequest ==
  [][data' # data => data' = <<ResponseOf([id |-> issued'])>>]_vars

\* the response of request 2 is displayed while the superseded request 1 has
\* still to settle
C1_Witness ==
  /\ data = <<ResponseOf([id |-> 2])>>
  /\ \E r \in requests : r.id = 1 /\ r.aborted

\* C2: the completion of an aborted matchup request leaves data, error and
\* loading unchanged.
C2_AbortedRequestMutatesNothing ==
  [][\A r \in requests :
       (r.aborted /\ r.id \notin Ids(requests')) => UNCHANGED <<data, error, loading>>]_vars

\* C3: a change of batter, bowler, over or ball aborts the request in flight
\* before a new one is started; at most one request is in flight and not
\* aborted.
C3_AtMostOneLiveRequest ==
  /\ [](Cardinality({r \in requests : ~r.aborted}) <= 1)
  /\ [][Deps(batter', bowler', over0', ball1to6') # Deps(batter, bowler, over0, ball1to6)
          => \A r \in requests' : r.id <= issued => r.aborted]_vars

\* two requests in flight, the older aborted and the newer not
C3_Witness ==
  \E r1, r2 \in requests : r1.id < r2.id /\ r1.aborted /\ ~r2.aborted

\* C4: a request ended by an abort never changes the error message; a request
\* that was not aborted and ends with a non-OK status or a network error sets
\* a non-empty error message.
C4_CancellationIsNotFailure ==
  [][\A r \in requests :
       r.id \notin Ids(requests') =>
         /\ r.aborted => error' = error
         /\ (~r.aborted /\ settled' \in {"http", "network"}) => error' # ""]_vars

\* an aborted request has settled and the failure message of the newer
\* request is still displayed
C4_Witness ==
  /\ settled = "abort"
  /\ error = "Matchup HTTP 500"
  /\ requests = {}

\* C16: every matchup request issued carries a non-empty batter, a non-empty
\* bowler, start_over0 in 0..19, start_ball0 in 0..5 equal to the selected
\* ball (1..6) minus one, and min_balls = 6; while the batter or the bowler
\* is empty no request is issued.  A request in flight keeps the parameters
\* it was issued with, and it is aborted as soon as the selection moves on.
C16_RequestParametersValid ==
  /\ \A r \in requests :
       /\ r.batter # Empty /\ r.bowler # Empty
       /\ r.start_over0 \in 0..19
       /\ r.start_ball0 \in 0..5
       /\ r.min_balls = 6
       /\ ~r.aborted =>
            /\ r.batter = batter /\ r.bowler = bowler
            /\ r.start_over0 = over0
            /\ ball1to6 \in 1..6 /\ r.start_ball0 = ball1to6 - 1
  /\ (batter = Empty \/ bowler = Empty) => \A r \in requests : r.aborted

\* a request for the last ball of the last over is in flight
C16_Witness ==
  \E r \in requests :
    /\ ~r.aborted
    /\ r.start_over0 = 19 /\ r.start_ball0 = 5 /\ ball1to6 = 6
    /\ r.batter # Empty /\ r.bowler # Empty /\ r.min_balls = 6

\* C17: whenever the most recently issued matchup request has not completed,
\* loading is true; the completion of an earlier, superseded request never
\* turns loading off while a newer request is in flight
C17_LoadingWhileLatestInFlight ==
  (\E r \in requests : r.id = issued) => loading

\* C18: once the user has stopped changing the controls and every request
\* issued has completed or was aborted, loading is false for ever; and if
\* the request issued last succeeded, data is its response and error is ""
C18_EventuallyIdle ==
  <>[](/\ ~loading
       /\ latest = "ok" => (data = <<[req |-> issued]>> /\ error = ""))

\* the second request succeeded after the first was superseded, and nothing
\* is in flight
C18_Witness ==
  /\ issued = 2
  /\ latest = "ok"
  /\ settled = "abort"
  /\ requests = {}
  /\ ~loading
  /\ data = <<[req |-> 2]>>
  /\ error = ""

InList(name, list) == \E i \in 1..Len(list) : list[i] = name

\* C19: the selected batter is "" or an element of the fetched batters list,
\* and likewise the bowler; a successful players fetch sets each to the first
\* element of its list, or to "" when the list is empty; no selector can be
\* opened while the players are loading
C19_SelectionFromFetchedLists ==
  /\ [](/\ batter = Empty \/ InList(batter, battersList)
        /\ bowler = Empty \/ InList(bowler, bowlersList)
        /\ loadingPlayers => \A s \in Selects : ~selOpen[s])
  /\ [][(players = << >> /\ players' # << >>) =>
          LET d == players'[1]
          IN /\ batter' = IF Len(d.batters) = 0 THEN Empty ELSE d.batters[1]
             /\ bowler' = IF Len(d.bowlers) = 0 THEN Empty ELSE d.bowlers[1]]_vars

\* a bowler other than the first of the list has been picked from an opened
\* selector
C19_Witness ==
  /\ players # << >>
  /\ Len(bowlersList) > 1
  /\ bowler = bowlersList[2] /\ bowler # bowlersList[1]
  /\ batter = battersList[1]
  /\ \E s \in Selects : selOpen[s]

(***************************************************************************)
(* Tables: the memoised sorted rows computed from one fetched row list     *)
(***************************************************************************)
\* rows whose three sort fields are numbers, numeric and other text, true,
\* null, an object or missing, in different orders per field; and a null row
RowKinds ==
  << Row(Num(750000), Num(13333333), Num(50000)),
     Row(Str(<<"1", "2">>), Str(<<"0", ".", "5">>), Num(750000)),
     Row(Bool(TRUE), Num(750000), Str(<<"a", "b">>)),
     Row(Undefined, Null, Num(0 - 250000)),
     Null,
     Row(Num(50000), Bool(TRUE), PlainObject),
     Row(Num(13333333), Str(<<"a", "b">>), Bool(TRUE)) >>

RowSet == {RowKinds[i] : i \in 1..Len(RowKinds)}

ShortRowLists == UNION {[1..k -> RowSet] : k \in 0..MaxShortRows}

\* a long list running through the row kinds from an offset
LongRows(len, offset) ==
  [i \in 1..len |-> RowKinds[((i + offset) % Len(RowKinds)) + 1]]

LongRowLists ==
  {LongRows(len, offset) : len \in (TopN - 1)..(TopN + MaxOverTop),
                           offset \in 0..(Len(RowKinds) - 1)}

\* the value of a tables entry: missing, or an array of rows
FetchedRows == {Undefined} \cup {Arr(l) : l \in ShortRowLists \cup LongRowLists}

TableInit ==
  /\ tRows \in FetchedRows
  /\ tShown = [t \in TableNames |-> NotCalled]

\* the useMemo callback of a table runs
Memo(table) ==
  /\ tShown[table] = NotCalled
  /\ LET rows == TableRows(table, tRows)
     IN /\ tShown' = [tShown EXCEPT ![table] = Ok(rows.result)]
        /\ tRows' = rows.source
  /\ UNCHANGED <<keyVars, jsVars, comboVars, appVars>>

batterTeamRows == Memo("batterTeamRows")

bowlerTeamRows == Memo("bowlerTeamRows")

bestBattersTop10 == Memo("bestBattersTop10")

bestBowlersTop10 == Memo("bestBowlersTop10")

top5BattersSorted == Memo("top5BattersSorted")

top5BowlersSorted == Memo("top5BowlersSorted")

TableNext ==
  \/ batterTeamRows
  \/ bowlerTeamRows
  \/ bestBattersTop10
  \/ bestBowlersTop10
  \/ top5BattersSorted
  \/ top5BowlersSorted

InitTable == KeyIdle /\ JsIdle /\ TableInit /\ ComboIdle /\ AppInit

SpecTable == InitTable /\ [][TableNext]_vars

(***************************************************************************)
(* Properties of the tables (checked under SpecTable)                      *)
(***************************************************************************)
FetchedList == IF tRows.t = "array" THEN tRows.v ELSE << >>

CountIn(x, list) == Cardinality({i \in 1..Len(list) : list[i] = x})

NonIncreasing(list, Key(_)) ==
  \A i \in 1..(Len(list) - 1) : Key(list[i]) >= Key(list[i + 1])

\* shown holds the n highest rows of list under Key, as many as list has
HighestOf(shown, list, n, Key(_)) ==
  /\ Len(shown) = Min(n, Len(list))
  /\ \A x \in RowSet : CountIn(x, shown) <= CountIn(x, list)
  /\ \A x \in RowSet : CountIn(x, shown) < CountIn(x, list) =>
       \A i \in 1..Len(shown) : Key(x) <= Key(shown[i])

\* every table computed so far is sorted under Key and holds the rows fetched
\* (the ten highest of them in a limited table)
TablesOrderedBy(Key(_, _)) ==
  \A t \in TableNames : tShown[t] # NotCalled =>
    LET shown == tShown[t].v
        K(row) == Key(row, SortFieldOf(t))
    IN /\ NonIncreasing(shown, K)
       /\ HighestOf(shown, FetchedList,
                    IF Limited(t) THEN TopN ELSE Len(FetchedList), K)

\* the value a sort field counts for when every value that is not a number,
\* nor text spelling a number, counts as 0
NumericOrZero(row, field) ==
  LET x == FieldOf(row, field)
  IN IF x.t = "number" THEN x.v
     ELSE IF x.t = "string" /\ ~StringToNumber(x.v).nan THEN StringToNumber(x.v).v
     ELSE 0

\* the same, with the boolean true counting as 1
NumericTrueOrZero(row, field) ==
  IF FieldOf(row, field) = Bool(TRUE) THEN Scale ELSE NumericOrZero(row, field)

\* C21 as stated: each table shown is a reordering of the rows fetched, in
\* non-increasing order of its sort field with a missing or non-numeric
\* field counted as 0, the fetched list is left unmodified, and a "best
\* overall" table holds at most 10 rows, the 10 highest under that order
C21_TablesSortedNonNumericAsZero ==
  /\ [](TablesOrderedBy(NumericOrZero))
  /\ [][tRows' = tRows]_vars

\* C21 amended: the same, the sort field being converted with Number(): a
\* missing, null, object or non-numeric text field counts as 0, text that
\* spells a number counts as that number and the boolean true counts as 1
C21_TablesSortedByNumberOrZero ==
  /\ [](TablesOrderedBy(NumericTrueOrZero))
  /\ [][tRows' = tRows]_vars

\* more than ten rows were fetched; the best batters table shows ten of
\* them, a row whose sr is true ahead of a row whose sr is 0.5
C21_Witness ==
  /\ Len(FetchedList) > TopN
  /\ tShown["bestBattersTop10"] # NotCalled
  /\ tShown["batterTeamRows"] # NotCalled
  /\ Len(tShown["bestBattersTop10"].v) = TopN
  /\ Len(tShown["batterTeamRows"].v) = Len(FetchedList)
  /\ \E i, j \in 1..TopN :
       /\ i < j
       /\ FieldOf(tShown["batterTeamRows"].v[i], "sr") = Bool(TRUE)
       /\ FieldOf(tShown["batterTeamRows"].v[j], "sr") = Num(50000)

====
